---- MODULE Spec2Model ----
(***************************************************************************)
(* Manifold-valued parameters (gtsam/geometry/FundamentalMatrix.h) and the *)
(* three-way velocity factor (gtsam_unstable/dynamics/VelocityConstraint3.h)*)
(*                                                                         *)
(* double is modelled by the integers (exact arithmetic, no rounding), a   *)
(* Vector by a sequence, a Matrix by a sequence of rows.  Rot3 and         *)
(* EssentialMatrix are leaf charts that are not part of the two files;     *)
(* they are modelled as the torus (Z_RotMod)^n with the additive chart,    *)
(* which satisfies x.localCoordinates(x.retract(u)) = u on TangentVals.    *)
(***************************************************************************)
EXTENDS Integers, Sequences, FiniteSets, TLC

VARIABLES
  p,          \* the Parameter the caller currently holds
  q,          \* the receiver of the last retract (value type: still intact)
  delta,      \* the tangent vector handed to the last retract
  status,     \* "new" | "ok" | "abort" : how the last retract ended
  ret,        \* what the last localCoordinates / equals call returned
  nRetracts   \* number of retract calls so far

VARIABLES
  factor,     \* the factor evaluateError is called on
  call,       \* the arguments of the last evaluateError call
  H,          \* the caller's three Matrix objects H1, H2, H3
  res         \* the Vector the last evaluateError call returned

VARIABLES
  heap,       \* address -> factor object, or Free
  original,   \* pointer to the constructed factor, or Null
  copy,       \* pointer clone() returned, or Null
  snapshot,   \* the original's attributes at the moment of cloning
  ctor,       \* the arguments of the last constructor call
  result      \* what the last evaluateError call on the clone returned

VARIABLES
  values,     \* the variable assignment: Key -> double
  graph,      \* the factors of the pass, one per worker thread
  wreq,       \* which Jacobians the pass requests
  pc,         \* worker -> the line of evaluateError it is about to execute
  out         \* worker -> its own Matrix objects and returned Vector

paramVars == <<p, q, delta, status, ret, nRetracts>>
evalVars == <<factor, call, H, res>>
lifeVars == <<heap, original, copy, snapshot, ctor, result>>
passVars == <<values, graph, wreq, pc, out>>

vars == <<paramVars, evalVars, lifeVars, passVars>>

\* what the operations of one class leave alone
notParam == <<evalVars, lifeVars, passVars>>
notEval == <<paramVars, lifeVars, passVars>>
notLife == <<paramVars, evalVars, passVars>>
notPass == <<paramVars, evalVars, lifeVars>>

----------------------------------------------------------------------------
(* Bounds of the model *)

MaxRetracts == 2

TangentVals == {-1, 0, 1}
DeltaLens == {6, 7, 8}
DefaultTol == 1
Tols == {0, DefaultTol, 2 * DefaultTol}

----------------------------------------------------------------------------
(* Scalars and Eigen vectors *)

Abs(x) == IF x < 0 THEN -x ELSE x

Zero(n) == [i \in 1..n |-> 0]

\* delta(i), 0-based; an index outside the vector reads g[i]
Coeff(d, i, g) == IF i >= 0 /\ i < Len(d) THEN d[i + 1] ELSE g[i]

\* delta.head<n>()
head(d, n, g) == [k \in 1..n |-> Coeff(d, k - 1, g)]

\* delta.tail<n>()
tail(d, n, g) == [k \in 1..n |-> Coeff(d, Len(d) - n + k - 1, g)]

\* (a - b).norm() < tol for Point2
NormLess(a, b, tol) ==
  /\ tol > 0
  /\ (a[1] - b[1]) * (a[1] - b[1]) + (a[2] - b[2]) * (a[2] - b[2]) < tol * tol

----------------------------------------------------------------------------
(* Leaf charts: Rot3 (3 coordinates) and EssentialMatrix (5 coordinates) *)

RotMod == 3

Centered(z) ==
  LET r == z % RotMod IN IF 2 * r > RotMod THEN r - RotMod ELSE r

Chart_retract(x, u) == [i \in 1..Len(x) |-> (x[i] + u[i]) % RotMod]
Chart_localCoordinates(x, y) == [i \in 1..Len(x) |-> Centered(y[i] - x[i])]
Chart_equals(x, y, tol) == \A i \in 1..Len(x) : Abs(Centered(y[i] - x[i])) <= tol

Rot3 == Zero(3)
Rot3_retract(R, u) == Chart_retract(R, u)
Rot3_localCoordinates(R, T) == Chart_localCoordinates(R, T)
Rot3_equals(R, T, tol) == Chart_equals(R, T, tol)

EssentialMatrix == Zero(5)
EssentialMatrix_retract(E, u) == Chart_retract(E, u)
EssentialMatrix_localCoordinates(E, F) == Chart_localCoordinates(E, F)
EssentialMatrix_equals(E, F, tol) == Chart_equals(E, F, tol)

----------------------------------------------------------------------------
(* class FundamentalMatrix *)

FundamentalMatrix(U, s, V) ==
  [type |-> "FundamentalMatrix", U |-> U, s |-> s, V |-> V]

FundamentalMatrix_default == FundamentalMatrix(Rot3, 1, Rot3)

FundamentalMatrix_dimension == 7

\* slip: the scalars are added instead of subtracted
FundamentalMatrix_equals_sum(self, other, tol) ==
  /\ Rot3_equals(self.U, other.U, tol)
  /\ Abs(self.s + other.s) < tol
  /\ Rot3_equals(self.V, other.V, tol)

FundamentalMatrix_equals(self, other, tol) ==
  /\ Rot3_equals(self.U, other.U, tol)
  /\ Abs(self.s - other.s) < tol
  /\ Rot3_equals(self.V, other.V, tol)

\* slip: the two rotations are written in the opposite order
FundamentalMatrix_localCoordinates_swapped(self, F) ==
  Rot3_localCoordinates(self.V, F.V) \o <<F.s - self.s>>
    \o Rot3_localCoordinates(self.U, F.U)

FundamentalMatrix_localCoordinates(self, F) ==
  Rot3_localCoordinates(self.U, F.U) \o <<F.s - self.s>>
    \o Rot3_localCoordinates(self.V, F.V)

\* the coefficients retract reads that the vector does not have
FundamentalMatrix_outOfRange(d) ==
  ({0, 1, 2, 3} \cup {Len(d) - 3, Len(d) - 2, Len(d) - 1}) \ (0..(Len(d) - 1))

FundamentalMatrix_retract(self, d, g) ==
  LET newU == Rot3_retract(self.U, head(d, 3, g))
      newS == self.s + Coeff(d, 3, g)
      newV == Rot3_retract(self.V, tail(d, 3, g))
  IN  FundamentalMatrix(newU, newS, newV)

----------------------------------------------------------------------------
(* class SimpleFundamentalMatrix *)

SimpleFundamentalMatrix(E, fa, fb, ca, cb) ==
  [type |-> "SimpleFundamentalMatrix", E |-> E, fa |-> fa, fb |-> fb,
   ca |-> ca, cb |-> cb]

SimpleFundamentalMatrix_default ==
  SimpleFundamentalMatrix(EssentialMatrix, 1, 1, <<0, 0>>, <<0, 0>>)

SimpleFundamentalMatrix_dimension == 7

\* det(Kb) of matrix(): Kb = [fb 0 cb.x; 0 fb cb.y; 0 0 1]
SimpleFundamentalMatrix_detKb(self) == self.fb * self.fb

SimpleFundamentalMatrix_equals(self, other, tol) ==
  /\ EssentialMatrix_equals(self.E, other.E, tol)
  /\ Abs(self.fa - other.fa) < tol
  /\ Abs(self.fb - other.fb) < tol
  /\ NormLess(self.ca, other.ca, tol)
  /\ NormLess(self.cb, other.cb, tol)

SimpleFundamentalMatrix_localCoordinates(self, F) ==
  EssentialMatrix_localCoordinates(self.E, F.E)
    \o <<F.fa - self.fa>> \o <<F.fb - self.fb>>

SimpleFundamentalMatrix_outOfRange(d) == (0..6) \ (0..(Len(d) - 1))

\* slip: ca_, cb_ are not passed on and take the constructor's defaults
SimpleFundamentalMatrix_retract_defaults(self, d, g) ==
  LET newE == EssentialMatrix_retract(self.E, head(d, 5, g))
      newFa == self.fa + Coeff(d, 5, g)
      newFb == self.fb + Coeff(d, 6, g)
  IN  SimpleFundamentalMatrix(newE, newFa, newFb, <<0, 0>>, <<0, 0>>)

SimpleFundamentalMatrix_retract(self, d, g) ==
  LET newE == EssentialMatrix_retract(self.E, head(d, 5, g))
      newFa == self.fa + Coeff(d, 5, g)
      newFb == self.fb + Coeff(d, 6, g)
  IN  SimpleFundamentalMatrix(newE, newFa, newFb, self.ca, self.cb)

----------------------------------------------------------------------------
(* traits<T> : dispatch on the concrete Parameter type *)

IsFM(x) == x.type = "FundamentalMatrix"
IsSFM(x) == x.type = "SimpleFundamentalMatrix"

dim(x) ==
  IF IsFM(x) THEN FundamentalMatrix_dimension
  ELSE SimpleFundamentalMatrix_dimension

outOfRange(x, d) ==
  IF IsFM(x) THEN FundamentalMatrix_outOfRange(d)
  ELSE SimpleFundamentalMatrix_outOfRange(d)

retract(x, d, g) ==
  IF IsFM(x) THEN FundamentalMatrix_retract(x, d, g)
  ELSE SimpleFundamentalMatrix_retract(x, d, g)

localCoordinates(x, y) ==
  IF IsFM(x) THEN FundamentalMatrix_localCoordinates(x, y)
  ELSE SimpleFundamentalMatrix_localCoordinates(x, y)

equals(x, y, tol) ==
  IF IsFM(x) THEN FundamentalMatrix_equals(x, y, tol)
  ELSE SimpleFundamentalMatrix_equals(x, y, tol)

----------------------------------------------------------------------------
(* Inputs *)

\* tangent vectors of every length: zero, the signed unit vectors, one dense
Unit(n, k, t) == [i \in 1..n |-> IF i = k THEN t ELSE 0]

Alternating(n) == [i \in 1..n |-> IF i % 2 = 1 THEN 1 ELSE -1]

Deltas ==
  UNION {{Zero(n), Alternating(n)}
           \cup {Unit(n, k, t) : k \in 1..n, t \in TangentVals}
         : n \in DeltaLens}

InitialParameters ==
  { FundamentalMatrix_default,
    FundamentalMatrix(<<1, 0, 2>>, 2, <<0, 2, 1>>),
    SimpleFundamentalMatrix_default,
    SimpleFundamentalMatrix(<<1, 0, 2, 0, 1>>, 2, 1, <<1, 2>>, <<3, 4>>) }

NoRet == [op |-> "none"]

InitParam ==
  /\ p \in InitialParameters
  /\ q = p
  /\ delta = <<>>
  /\ status = "new"
  /\ ret = NoRet
  /\ nRetracts = 0

----------------------------------------------------------------------------
(* Operations on a Parameter *)

\* p = p.retract(d): every coefficient read exists, or the build has
\* Eigen's assertions compiled out and the missing coefficients read g
Retract(d) ==
  /\ UNCHANGED notParam
  /\ status # "abort"
  /\ nRetracts < MaxRetracts
  /\ \E g \in [outOfRange(p, d) -> TangentVals] :
       p' = retract(p, d, g)
  /\ q' = p
  /\ delta' = d
  /\ status' = "ok"
  /\ ret' = NoRet
  /\ nRetracts' = nRetracts + 1

\* p.retract(d) in a build with Eigen's assertions: a missing coefficient
\* aborts the program
RetractAssert(d) ==
  /\ UNCHANGED notParam
  /\ status # "abort"
  /\ nRetracts < MaxRetracts
  /\ outOfRange(p, d) # {}
  /\ delta' = d
  /\ status' = "abort"
  /\ ret' = NoRet
  /\ nRetracts' = nRetracts + 1
  /\ UNCHANGED <<p, q>>

\* q.localCoordinates(p)
LocalCoordinates ==
  /\ UNCHANGED notParam
  /\ status # "abort"
  /\ ret' = [op |-> "localCoordinates", value |-> localCoordinates(q, p)]
  /\ UNCHANGED <<p, q, delta, status, nRetracts>>

\* q.equals(p, tol)
Equals(tol) ==
  /\ UNCHANGED notParam
  /\ status # "abort"
  /\ ret' = [op |-> "equals", tol |-> tol, value |-> equals(q, p, tol)]
  /\ UNCHANGED <<p, q, delta, status, nRetracts>>

NextParam ==
  \/ \E d \in Deltas : Retract(d)
  \/ \E d \in Deltas : RetractAssert(d)
  \/ LocalCoordinates
  \/ \E tol \in Tols : Equals(tol)

----------------------------------------------------------------------------
(* Eigen matrices *)

\* Matrix(): the 0x0 matrix
Matrix == <<>>

\* Matrix::Identity(n, n)
Matrix_Identity(n) == [i \in 1..n |-> [j \in 1..n |-> IF i = j THEN 1 ELSE 0]]

\* M * c
Matrix_scale(M, c) == [i \in 1..Len(M) |-> [j \in 1..Len(M[i]) |-> M[i][j] * c]]

----------------------------------------------------------------------------
(* class VelocityConstraint3 *)

\* nullptr, and the content of a free heap cell
Null == 0
Free == [type |-> "free"]

\* noiseModel::Constrained::All(dim, mu): forwarded opaquely
Constrained_All(n, mu) == [dim |-> n, mu |-> mu]

\* slip: mu is forwarded as given
VelocityConstraint3_signed(key1, key2, velKey, dt, mu) ==
  [keys |-> <<key1, key2, velKey>>,
   noiseModel |-> Constrained_All(1, mu),
   dt |-> dt]

VelocityConstraint3(key1, key2, velKey, dt, mu) ==
  [keys |-> <<key1, key2, velKey>>,
   noiseModel |-> Constrained_All(1, Abs(mu)),
   dt |-> dt]

\* line 46: if (H1) *H1 = Identity
evaluateError_H1(h, req) ==
  IF req[1] THEN [h EXCEPT ![1] = Matrix_Identity(1)] ELSE h

\* slip: H2 is written when H1 is requested
evaluateError_H2_onH1(h, req) ==
  IF req[1] THEN [h EXCEPT ![2] = Matrix_scale(Matrix_Identity(1), -1)] ELSE h

\* line 47: if (H2) *H2 = -Identity
evaluateError_H2(h, req) ==
  IF req[2] THEN [h EXCEPT ![2] = Matrix_scale(Matrix_Identity(1), -1)] ELSE h

\* slip: the time step is left out of H3
evaluateError_H3_unscaled(this, h, req) ==
  IF req[3] THEN [h EXCEPT ![3] = Matrix_Identity(1)] ELSE h

\* line 48: if (H3) *H3 = Identity * dt_
evaluateError_H3(this, h, req) ==
  IF req[3] THEN [h EXCEPT ![3] = Matrix_scale(Matrix_Identity(1), this.dt)]
  ELSE h

\* slip: x2 is added
evaluateError_return_plus(this, x1, x2, v) == <<x1 + v * this.dt + x2>>

\* line 49: the returned Vector(1)
evaluateError_return(this, x1, x2, v) == <<x1 + v * this.dt - x2>>

\* h: the caller's matrices; req[i]: whether Hi is a non-null pointer to h[i]
evaluateError(this, x1, x2, v, h, req) ==
  [H |-> evaluateError_H3(this, evaluateError_H2(evaluateError_H1(h, req), req), req),
   value |-> evaluateError_return(this, x1, x2, v)]

\* slip: the factor hands out a pointer to itself
clone_alias(hp, this) == [heap |-> hp, ptr |-> this]

\* new VelocityConstraint3(*this) at a fresh address
clone(hp, this) ==
  LET ptr == CHOOSE a \in DOMAIN hp : hp[a] = Free
  IN  [heap |-> [hp EXCEPT ![ptr] = hp[this]], ptr |-> ptr]

----------------------------------------------------------------------------
(* Inputs of the factor *)

MaxObjects == 2

Addr == 1..MaxObjects
KeyTriples == {<<1, 2, 3>>, <<4, 5, 6>>}
Dts == {2, 3}
Mus == {-2, 0, 1000}
Doubles == {-1, 0, 2}
Requests == [1..3 -> BOOLEAN]
AllRequested == [i \in 1..3 |-> TRUE]

None == [op |-> "none"]

InitEvalIdle ==
  /\ factor = None
  /\ call = None
  /\ H = <<Matrix, Matrix, Matrix>>
  /\ res = None

InitLifeIdle ==
  /\ heap = [a \in Addr |-> Free]
  /\ original = Null
  /\ copy = Null
  /\ snapshot = None
  /\ ctor = None
  /\ result = None

InitParamIdle ==
  /\ p = FundamentalMatrix_default
  /\ q = p
  /\ delta = <<>>
  /\ status = "new"
  /\ ret = NoRet
  /\ nRetracts = 0

----------------------------------------------------------------------------
(* Evaluating one factor: the caller owns three matrices and passes a      *)
(* pointer to each one it wants filled                                     *)

InitEval ==
  /\ \E k \in KeyTriples, dt \in Dts :
       factor = VelocityConstraint3(k[1], k[2], k[3], dt, 1000)
  /\ call = None
  /\ H = <<Matrix, Matrix, Matrix>>
  /\ res = None

Evaluate(x1, x2, v, req) ==
  LET r == evaluateError(factor, x1, x2, v, H, req)
  IN  /\ H' = r.H
      /\ res' = r.value
      /\ call' = [op |-> "evaluateError", x1 |-> x1, x2 |-> x2, v |-> v,
                  req |-> req]
      /\ UNCHANGED factor
      /\ UNCHANGED notEval

\* the caller resets one of its matrices: H[i] = Matrix()
Reset(i) ==
  /\ UNCHANGED notEval
  /\ H[i] # Matrix
  /\ H' = [H EXCEPT ![i] = Matrix]
  /\ call' = None
  /\ res' = None
  /\ UNCHANGED factor

NextEval ==
  \/ \E x1 \in Doubles, x2 \in Doubles, v \in Doubles, req \in Requests :
       Evaluate(x1, x2, v, req)
  \/ \E i \in 1..3 : Reset(i)

----------------------------------------------------------------------------
(* Lifetime of a factor: construct, clone, assign, destroy                 *)

InitLife == InitLifeIdle

Construct(k, dt, mu) ==
  /\ UNCHANGED notLife
  /\ original = Null
  /\ \E a \in Addr :
       /\ heap[a] = Free
       /\ heap' = [heap EXCEPT ![a] = VelocityConstraint3(k[1], k[2], k[3], dt, mu)]
       /\ original' = a
       /\ ctor' = [op |-> "VelocityConstraint3", mu |-> mu, dt |-> dt,
                   keys |-> k, ptr |-> a]
  /\ result' = None
  /\ UNCHANGED <<copy, snapshot>>

\* copy = original->clone()
Clone ==
  /\ UNCHANGED notLife
  /\ original # Null
  /\ copy = Null
  /\ \E a \in Addr : heap[a] = Free
  /\ LET c == clone(heap, original)
     IN  /\ heap' = c.heap
         /\ copy' = c.ptr
  /\ snapshot' = heap[original]
  /\ ctor' = None
  /\ result' = None
  /\ UNCHANGED original

\* *original = VelocityConstraint3(k, dt, mu): the implicit copy assignment
Assign(k, dt, mu) ==
  /\ UNCHANGED notLife
  /\ original # Null
  /\ heap' = [heap EXCEPT ![original] = VelocityConstraint3(k[1], k[2], k[3], dt, mu)]
  /\ ctor' = None
  /\ result' = None
  /\ UNCHANGED <<original, copy, snapshot>>

\* delete original
Destroy ==
  /\ UNCHANGED notLife
  /\ original # Null
  /\ heap' = [heap EXCEPT ![original] = Free]
  /\ original' = Null
  /\ ctor' = None
  /\ result' = None
  /\ UNCHANGED <<copy, snapshot>>

\* delete copy
DestroyClone ==
  /\ UNCHANGED notLife
  /\ copy # Null
  /\ copy # original
  /\ heap[copy] # Free
  /\ heap' = [heap EXCEPT ![copy] = Free]
  /\ copy' = Null
  /\ snapshot' = None
  /\ ctor' = None
  /\ result' = None
  /\ UNCHANGED original

\* copy->evaluateError(x1, x2, v, &H1, &H2, &H3)
EvaluateClone(x1, x2, v) ==
  /\ UNCHANGED notLife
  /\ copy # Null
  /\ heap[copy] # Free
  /\ LET r == evaluateError(heap[copy], x1, x2, v,
                            <<Matrix, Matrix, Matrix>>, AllRequested)
     IN  result' = [op |-> "evaluateError", x1 |-> x1, x2 |-> x2, v |-> v,
                    H |-> r.H, value |-> r.value]
  /\ ctor' = None
  /\ UNCHANGED <<heap, original, copy, snapshot>>

NextLife ==
  \/ \E k \in KeyTriples, dt \in Dts, mu \in Mus : Construct(k, dt, mu)
  \/ Clone
  \/ \E k \in KeyTriples, dt \in Dts, mu \in Mus : Assign(k, dt, mu)
  \/ Destroy
  \/ DestroyClone
  \/ \E x1 \in Doubles, x2 \in Doubles, v \in Doubles : EvaluateClone(x1, x2, v)

----------------------------------------------------------------------------
(* A parallel evaluation pass: worker w evaluates graph[w] against the     *)
(* shared assignment, one line of evaluateError per step                   *)

NumWorkers == 2

Workers == 1..NumWorkers
Keys == 1..(NumWorkers + 2)
Vals == {0, 1}

FreshOut == [H |-> <<Matrix, Matrix, Matrix>>, value |-> <<>>]

InitPassIdle ==
  /\ values = [k \in Keys |-> 0]
  /\ graph = <<>>
  /\ wreq = [i \in 1..3 |-> FALSE]
  /\ pc = [w \in Workers |-> "idle"]
  /\ out = [w \in Workers |-> FreshOut]

InitPass ==
  /\ values \in [Keys -> Vals]
  /\ graph = [w \in Workers |-> VelocityConstraint3(w, w + 1, w + 2, w + 1, 1000)]
  /\ wreq = [i \in 1..3 |-> FALSE]
  /\ pc = [w \in Workers |-> "idle"]
  /\ out = [w \in Workers |-> FreshOut]

PassActive == \E w \in Workers : pc[w] \notin {"idle", "done"}

\* the optimizer starts a pass: every worker gets fresh matrices
StartPass(req) ==
  /\ UNCHANGED notPass
  /\ ~PassActive
  /\ wreq' = req
  /\ pc' = [w \in Workers |-> "L46"]
  /\ out' = [w \in Workers |-> FreshOut]
  /\ UNCHANGED <<values, graph>>

Line46(w) ==
  /\ UNCHANGED notPass
  /\ pc[w] = "L46"
  /\ out' = [out EXCEPT ![w].H = evaluateError_H1(out[w].H, wreq)]
  /\ pc' = [pc EXCEPT ![w] = "L47"]
  /\ UNCHANGED <<values, graph, wreq>>

Line47(w) ==
  /\ UNCHANGED notPass
  /\ pc[w] = "L47"
  /\ out' = [out EXCEPT ![w].H = evaluateError_H2(out[w].H, wreq)]
  /\ pc' = [pc EXCEPT ![w] = "L48"]
  /\ UNCHANGED <<values, graph, wreq>>

Line48(w) ==
  /\ UNCHANGED notPass
  /\ pc[w] = "L48"
  /\ out' = [out EXCEPT ![w].H = evaluateError_H3(graph[w], out[w].H, wreq)]
  /\ pc' = [pc EXCEPT ![w] = "L49"]
  /\ UNCHANGED <<values, graph, wreq>>

\* x1, x2, v are references into the assignment: read here
Line49(w) ==
  /\ UNCHANGED notPass
  /\ pc[w] = "L49"
  /\ LET f == graph[w]
     IN  out' = [out EXCEPT ![w].value =
                   evaluateError_return(f, values[f.keys[1]], values[f.keys[2]],
                                        values[f.keys[3]])]
  /\ pc' = [pc EXCEPT ![w] = "done"]
  /\ UNCHANGED <<values, graph, wreq>>

\* between passes the optimizer installs a new value and drops the results
Install(k, x) ==
  /\ UNCHANGED notPass
  /\ ~PassActive
  /\ values[k] # x
  /\ values' = [values EXCEPT ![k] = x]
  /\ pc' = [w \in Workers |-> "idle"]
  /\ out' = [w \in Workers |-> FreshOut]
  /\ UNCHANGED <<graph, wreq>>

NextPass ==
  \/ \E req \in Requests : StartPass(req)
  \/ \E w \in Workers : Line46(w)
  \/ \E w \in Workers : Line47(w)
  \/ \E w \in Workers : Line48(w)
  \/ \E w \in Workers : Line49(w)
  \/ \E k \in Keys, x \in Vals : Install(k, x)

----------------------------------------------------------------------------
(* Specifications *)

Init == InitParam /\ InitEvalIdle /\ InitLifeIdle /\ InitPassIdle

Next == NextParam

Spec == Init /\ [][Next]_vars

InitE == InitParamIdle /\ InitEval /\ InitLifeIdle /\ InitPassIdle

SpecEval == InitE /\ [][NextEval]_vars

InitL == InitParamIdle /\ InitEvalIdle /\ InitLife /\ InitPassIdle

SpecLife == InitL /\ [][NextLife]_vars

InitP == InitParamIdle /\ InitEvalIdle /\ InitLifeIdle /\ InitPass

SpecPass == InitP /\ [][NextPass]_vars

----------------------------------------------------------------------------
(* Properties *)

\* C1: dimension() is 7 for both variants, and a retract with a tangent
\* vector whose length is not 7 is rejected: it returns no new Parameter.
C1_DimensionMismatchRejected ==
  /\ dim(p) = 7
  /\ (nRetracts > 0 /\ Len(delta) # dim(p)) => status = "abort"

\* C2: q.localCoordinates(q.retract(d)) = d for every 7-vector d, for both
\* variants, given that the leaf charts invert their own retract.
C2_RoundTrip ==
  (ret.op = "localCoordinates" /\ status = "ok" /\ Len(delta) = dim(q))
    => ret.value = delta

C2_Witness ==
  /\ ret.op = "localCoordinates"
  /\ status = "ok"
  /\ nRetracts = MaxRetracts
  /\ IsFM(q)
  /\ q # FundamentalMatrix_default
  /\ delta = Alternating(7)
  /\ ret.value = delta

\* C3: in the reduced form no step changes the principal points ca and cb,
\* so after any sequence of retracts they are those of the starting
\* parameter; the local coordinates are the 5 coordinates of E followed by
\* the differences of fa and fb, and nothing of ca or cb.
C3_PrincipalPointsFrozen ==
  /\ []((ret.op = "localCoordinates" /\ IsSFM(q)) =>
          /\ Len(ret.value) = 7
          /\ \A i \in 1..5 : ret.value[i] = Centered(p.E[i] - q.E[i])
          /\ ret.value[6] = p.fa - q.fa
          /\ ret.value[7] = p.fb - q.fb)
  /\ [][IsSFM(p) => (IsSFM(p') /\ p'.ca = p.ca /\ p'.cb = p.cb)]_vars

C3_Witness ==
  /\ IsSFM(p)
  /\ nRetracts = MaxRetracts
  /\ status = "ok"
  /\ p.ca = <<1, 2>>
  /\ p.cb = <<3, 4>>
  /\ p.E # q.E
  /\ p.fa # 2

\* C7: q.equals(q.retract(zero), tol) holds for every tol > 0, for both
\* variants.
C7_IdentityRetract ==
  (ret.op = "equals" /\ status = "ok" /\ delta = Zero(7) /\ ret.tol > 0)
    => ret.value = TRUE

C7_Witness ==
  /\ ret.op = "equals"
  /\ status = "ok"
  /\ delta = Zero(7)
  /\ ret.tol = DefaultTol
  /\ ret.value = TRUE
  /\ IsSFM(p)
  /\ p.ca # <<0, 0>>

\* C10: in the reduced form fa and fb are positive in every reachable
\* state, so the right calibration matrix of matrix() is invertible.
C10_FocalLengthsPositive ==
  IsSFM(p) => (p.fa > 0 /\ p.fb > 0 /\ SimpleFundamentalMatrix_detKb(p) # 0)

\* C4: evaluateError returns [x1 + v*dt - x2], and every requested Jacobian
\* is the constant [1] for x1, [-1] for x2, [dt] for v.
C4_ResidualAndJacobians ==
  call.op = "evaluateError" =>
    /\ res = <<call.x1 + call.v * factor.dt - call.x2>>
    /\ call.req[1] => H[1] = <<<<1>>>>
    /\ call.req[2] => H[2] = <<<<-1>>>>
    /\ call.req[3] => H[3] = <<<<factor.dt>>>>

C4_Witness ==
  /\ call.op = "evaluateError"
  /\ call.req = AllRequested
  /\ call.x1 = 2 /\ call.x2 = -1 /\ call.v = 2
  /\ factor.dt = 3
  /\ res = <<9>>
  /\ H = << <<<<1>>>>, <<<<-1>>>>, <<<<3>>>> >>

\* C6: for each of the 8 request combinations an evaluateError call writes
\* every requested matrix, leaves every other matrix of the caller as it
\* was, and returns the residual it returns when nothing is requested.
C6_JacobiansIndependent ==
  [][call'.op = "evaluateError" =>
       /\ \A i \in 1..3 : ~call'.req[i] => H'[i] = H[i]
       /\ \A i \in 1..3 : call'.req[i] => (H'[i] # Matrix /\ Len(H'[i]) = 1)
       /\ res' = evaluateError(factor, call'.x1, call'.x2, call'.v, H,
                               [i \in 1..3 |-> FALSE]).value]_vars

\* H1 alone was requested: H2 keeps what an earlier call wrote, H3 is empty
C6_Witness ==
  /\ call.op = "evaluateError"
  /\ call.req = <<TRUE, FALSE, FALSE>>
  /\ H[1] = <<<<1>>>>
  /\ H[2] = <<<<-1>>>>
  /\ H[3] = Matrix

C8_CloneIndependent ==
  /\ copy # Null =>
       /\ copy # original
       /\ heap[copy] # Free
       /\ heap[copy].keys = snapshot.keys
       /\ heap[copy].dt = snapshot.dt
       /\ heap[copy].noiseModel = snapshot.noiseModel
  /\ result.op = "evaluateError" =>
       /\ result.value = <<result.x1 + result.v * snapshot.dt - result.x2>>
       /\ result.H = << <<<<1>>>>, <<<<-1>>>>, <<<<snapshot.dt>>>> >>

C8_Witness ==
  /\ result.op = "evaluateError"
  /\ copy # Null
  /\ original # Null
  /\ heap[original].dt # snapshot.dt
  /\ heap[original].keys # snapshot.keys
  /\ result.v # 0

\* C9: whatever the interleaving of the workers, a worker that has finished
\* holds the residual and the Jacobians of a sequential evaluation against
\* the assignment, and no step of a pass changes the assignment or a factor.
C9_ParallelEqualsSequential ==
  /\ [](\A w \in Workers : pc[w] = "done" =>
          /\ out[w].value =
               << values[graph[w].keys[1]]
                  + values[graph[w].keys[3]] * graph[w].dt
                  - values[graph[w].keys[2]] >>
          /\ out[w].H[1] = (IF wreq[1] THEN <<<<1>>>> ELSE Matrix)
          /\ out[w].H[2] = (IF wreq[2] THEN <<<<-1>>>> ELSE Matrix)
          /\ out[w].H[3] = (IF wreq[3] THEN <<<<graph[w].dt>>>> ELSE Matrix))
  /\ [][PassActive => (values' = values /\ graph' = graph)]_vars

C9_Witness ==
  /\ \A w \in Workers : pc[w] = "done"
  /\ wreq = AllRequested
  /\ \A k \in Keys : values[k] = 1
  /\ out[1].value = <<2>>
  /\ out[2].value = <<3>>

====
